---------------------------- MODULE Spec2Model ----------------------------
(***************************************************************************)
(* The batch AI-organization pipeline of src/services/gemini.ts:           *)
(* organizeBookmarksBatch (chunking, sequential loop, inter-batch delay),  *)
(* processChunkWithRetry (terminal errors, fallback, backoff retries),     *)
(* processChunk (the three provider adapters) and the abort signal.        *)
(*                                                                         *)
(* JavaScript runs each task to its next suspension point without          *)
(* interleaving, so one action of the model is one event of the event loop *)
(* (the call, a request settling, a timer firing, the user's abort) with   *)
(* all the synchronous code and promise continuations that follow it, up   *)
(* to the next await that really suspends (a network request or a timer).  *)
(*                                                                         *)
(* An error message is modelled as the set of the substrings the code      *)
(* tests for (String.includes) that it contains.                           *)
(***************************************************************************)
EXTENDS Integers, Sequences, FiniteSets, TLC

\* ------------------------------------------------------------------ bounds
MaxItems == 3
MaxBatchSize == 2
MaxTags == 3
MaxTextLen == 6

\* --------------------------------------------------------------- constants
MAX_RETRIES == 5

VARIABLES
  settings,       \* what getAISettings() returns (storage.ts)
  bookmarks,      \* the `bookmarks` argument of organizeBookmarksBatch
  aborted,        \* signal.aborted
  pc,             \* where organizeBookmarksBatch is suspended
  batchSize,      \* local of organizeBookmarksBatch (line 118)
  delayMs,        \* local of organizeBookmarksBatch (line 119)
  chunks,         \* local of organizeBookmarksBatch (lines 121-124)
  i,              \* loop variable of organizeBookmarksBatch (0-based)
  allResults,     \* local of organizeBookmarksBatch (line 128)
  retryCount,     \* parameter of the suspended processChunkWithRetry frame
  error,          \* the error caught at line 184 by the suspended frame
  waitTime,       \* the duration of the delay() the call is suspended in
  inflight,       \* the network requests started and not yet settled
  attempts,       \* processChunk calls made for chunk i so far
  fallbackCalls,  \* callDirectGemini calls made for chunk i so far
  logged,         \* the failure line 157 (console.error) reported in the
                  \* last step of the call: chunk, error, the retry count
                  \* it was thrown at, and allResults at that moment
  delays,         \* inter-batch delay() calls (line 148) made so far
  dispatched,     \* chunks handed to processChunkWithRetry (line 141) so far
  answered,       \* what the provider answered in the last step of the
                  \* call, if a request was answered in it
  caught,         \* the error the Local adapter's catch (line 388) received
                  \* in the last step of the call, if it ran in it
  app,            \* the App component: its `bookmarks` state, the stored
                  \* collection, and its AI organization run
  chunkSettings,  \* the settings in effect when line 141 dispatched chunk i
  timer,          \* the timer of the delay() the call is suspended in:
                  \* "armed" (setTimeout pending), "cleared" (clearTimeout by
                  \* the abort listener, which resolved the delay), or "none"
  stored,         \* localStorage's item SETTINGS_KEY (storage.ts)
  retrieved,      \* what getAISettings() returned, called after the last save
  callArg,        \* the argument of a function called by itself: the text
                  \* given to parseResponse, or a record's `tags` field
  callResult      \* what that call returned

vars == <<settings, bookmarks, aborted, pc, batchSize, delayMs, chunks, i,
          allResults, retryCount, error, waitTime, inflight, attempts,
          fallbackCalls, logged, delays, dispatched, answered, caught, chunkSettings,
          timer, stored, retrieved, callArg, callResult, app>>

None == [name |-> "none", message |-> {}]
NoAnswer == "no answer"

\* ------------------------------------------------------------------ errors
Err(marks) == [name |-> "Error", message |-> marks]

\* fetch() rejecting because its signal was aborted (a DOMException). The
\* caller aborts without a reason (handleStopAnalysis), and the engines'
\* messages for it ("signal is aborted without reason", "The user aborted a
\* request.", "The operation was aborted.") hold none of the tested substrings.
AbortError == [name |-> "AbortError", message |-> {}]

\* new Error("Aborted by user")
AbortedByUser == Err({"Aborted by user"})

\* new Error("... API Key is missing. Please add it in Settings.")
MissingKey == Err({"api key is missing"})

includes(message, marker) == marker \in message

\* The messages a provider's request can fail with.
AuthMessages ==
  { {"401"}, {"unauthorized"}, {"403"}, {"forbidden"}, {"invalid api key"},
    {"invalid_api_key"}, {"provider", "401"} }
OutageMessages ==
  { {"provider"}, {"502"}, {"503"}, {"provider", "503"},
    {"failed to fetch", "fetch"} }
RateLimitMessages == { {"429"}, {"resource_exhausted"}, {"quota"}, {"provider", "429"} }
GenericMessages == { {}, {"fetch"}, {"fetch", "failed"} }
\* The Local adapter's own error for a response that is not 2xx (line 380):
\* "Ollama API Error: <status> <statusText>", where the status text is the
\* reason phrase the server sent ("Internal Server Error", "Service
\* Unavailable", "Too Many Requests", "Unauthorized", or a phrase of the
\* server's own such as "upstream request failed").
OllamaStatusMessages ==
  { {"Ollama API Error"}, {"Ollama API Error", "503"},
    {"Ollama API Error", "429"}, {"Ollama API Error", "401"},
    {"Ollama API Error", "failed"} }
\* fetch() rejecting because no connection was made: "Failed to fetch",
\* "fetch failed", "NetworkError when attempting to fetch resource.".
ConnectionMessages == GenericMessages \cup { {"failed to fetch", "fetch"} }
ProviderErrors ==
  { Err(m) : m \in AuthMessages \cup OutageMessages \cup RateLimitMessages
                     \cup GenericMessages }

\* What a provider answers when the request succeeds: the text handed to
\* parseResponse, by what JSON.parse makes of it. "records" is a JSON array
\* of one record per item of the chunk, each with the item's id; "items" is
\* an object whose `items` is that array.
RecordPayloads == {"records", "items"}
MalformedPayloads ==
  {"",                  \* no text at all
   "not json",          \* JSON.parse throws a SyntaxError
   "null",              \* the JSON value null
   "scalar",            \* a JSON number, string or boolean
   "object",            \* a JSON object without `items`, or whose `items`
                        \* is falsy (null, 0, "", false): `|| []` gives []
   "items truthy non-array"}   \* a JSON object whose `items` is truthy and
                               \* not an array (a number, a string, an object)
Payloads == RecordPayloads \cup MalformedPayloads


\* ---------------------------------------------------- error classification
\* processChunkWithRetry, lines 190-196 (on the lowercased message).
isAuthError(errorMessage) ==
  \/ includes(errorMessage, "401")
  \/ includes(errorMessage, "unauthorized")
  \/ includes(errorMessage, "403")
  \/ includes(errorMessage, "forbidden")
  \/ includes(errorMessage, "invalid api key")
  \/ includes(errorMessage, "invalid_api_key")

\* processChunkWithRetry, line 203.
isProviderError(errorMessage) ==
  \/ includes(errorMessage, "provider")
  \/ includes(errorMessage, "502")
  \/ includes(errorMessage, "503")
  \/ includes(errorMessage, "failed to fetch")

\* processChunkWithRetry, line 204.
isRateLimit(errorMessage) ==
  \/ includes(errorMessage, "429")
  \/ includes(errorMessage, "resource_exhausted")
  \/ includes(errorMessage, "quota")

\* organizeBookmarksBatch, lines 161-164: the errors that end the loop.
CriticalApiError(errMsg) ==
  \/ includes(errMsg, "429") \/ includes(errMsg, "quota")
  \/ includes(errMsg, "resource_exhausted")
  \/ includes(errMsg, "401") \/ includes(errMsg, "unauthorized")
  \/ includes(errMsg, "403") \/ includes(errMsg, "forbidden")
  \/ includes(errMsg, "invalid api key")

\* organizeBookmarksBatch, line 152: the catch block's test for an abort.
CatchSeesAbort(e) ==
  aborted \/ e.message = {"Aborted by user"} \/ e.name = "AbortError"

\* processChunkWithRetry, line 185, with `signal?.aborted` forgotten.
RetryCatchSeesAbortNameOnly(e) == e.name = "AbortError"

\* processChunkWithRetry, line 185.
RetryCatchSeesAbort(e) == aborted \/ e.name = "AbortError"

\* processChunk, line 390: the Local adapter's test for a connection failure
\* (on the message as thrown, not lowercased).
LooksLikeConnectionFailure(e) ==
  includes(e.message, "fetch") \/ includes(e.message, "failed")

\* processChunkWithRetry, line 218, off by one.
CanRetryInclusive(rc) == rc <= MAX_RETRIES

\* processChunkWithRetry, line 218, without the ceiling.
CanRetryAlways(rc) == TRUE

\* processChunkWithRetry, line 218.
CanRetry(rc) == rc < MAX_RETRIES

\* processChunkWithRetry, lines 219-224, without the rate-limit branch of
\* lines 221-224.
BackoffMsExponentialOnly(rc, errorMessage) == 1000 * 2 ^ rc

\* processChunkWithRetry, lines 219-224.
BackoffMs(rc, errorMessage) ==
  IF isRateLimit(errorMessage) THEN 10000 + rc * 5000 ELSE 1000 * 2 ^ rc

\* ---------------------------------------------------------------- chunking
Min(a, b) == IF a < b THEN a ELSE b

\* Array.prototype.slice(start, end) for 0 <= start <= end.
slice(s, start, end) == SubSeq(s, start + 1, Min(end, Len(s)))

RECURSIVE ChunkLoop(_, _, _, _)
ChunkLoop(items, size, k, acc) ==
  IF k < Len(items)
    THEN ChunkLoop(items, size, k + size, Append(acc, slice(items, k, k + size)))
    ELSE acc

\* organizeBookmarksBatch, lines 121-124, with the slice one item short.
ChunksShortSlice(items, size) ==
  [k \in 1..Len(ChunkLoop(items, size, 0, <<>>)) |->
     slice(items, (k - 1) * size, (k - 1) * size + size - 1)]

\* organizeBookmarksBatch, lines 121-124.
Chunks(items, size) == ChunkLoop(items, size, 0, <<>>)

\* `x || d` on numbers.
OrElse(x, d) == IF x = 0 THEN d ELSE x

\* What a function call produced: a value, or an exception.
Value(v) == [threw |-> FALSE, items |-> v]
Throws == [threw |-> TRUE, items |-> <<>>]

\* parseResponse, lines 282-289: the body of the try block, for the answer
\* to `chunk`. JSON.parse, then `Array.isArray(result) ? result :
\* (result.items || [])`, then `.map(...)`, which keeps every record's id.
ParseBody(payload, chunk) ==
  CASE payload = "not json" -> Throws           \* JSON.parse: SyntaxError
    [] payload = "records" -> Value(chunk)
    [] payload = "null" -> Throws               \* null.items: TypeError
    [] payload = "items" -> Value(chunk)
    [] payload = "items truthy non-array" -> Throws  \* .map is not a function
    [] OTHER -> Value(<<>>)                     \* undefined || []

\* parseResponse (lines 271-294) without its try/catch.
parseResponseNoCatch(payload, chunk) ==
  IF payload = "" THEN Value(<<>>) ELSE ParseBody(payload, chunk)

\* parseResponse (lines 271-294): falsy text gives [], and whatever the body
\* throws is caught and gives [] (lines 290-293).
parseResponse(payload, chunk) ==
  IF payload = "" THEN Value(<<>>)
  ELSE IF ParseBody(payload, chunk).threw THEN Value(<<>>)
  ELSE ParseBody(payload, chunk)

\* What JSON.parse, a property read or .map throws inside parseResponse: a
\* SyntaxError or TypeError whose message holds none of the tested substrings.
ParseError == Err({})

\* ---------------------------------------------------------------- settings
Providers == {"openrouter", "gemini", "ollama"}
Keys == {"", "key"}
BaseUrls == {"http://localhost:11434", "http://192.168.0.2:11434"}
LocalhostUrls == {"http://localhost:11434"}

\* The settings getAISettings() can return (storage.ts, lines 114-166): a key
\* is present or the empty string, batchSize is never falsy (line 137), and
\* a stored delay of 0 is kept (line 138).
DelayChoices == {0, 2000}
SettingsSpace ==
  [provider : Providers, openRouterApiKey : Keys, geminiApiKey : Keys,
   ollamaBaseUrl : BaseUrls, batchSize : 1..MaxBatchSize,
   delayBetweenBatches : DelayChoices]

\* delay(), lines 98-108, without the abort listener of lines 104-107.
OnAbortNoListener(tm) == tm

\* delay(), lines 104-107: the abort event reaches the listener of a pending
\* delay, which clears the timer and resolves the promise.
OnAbort(tm) == IF tm = "armed" THEN "cleared" ELSE tm

\* --------------------------------------------------- the text of an answer
\* The text handed to parseResponse, as a sequence of pieces: a fence
\* marker, the word json, any other word, white space, and "P", the JSON
\* array of one record per item of the chunk.
TextPieces == {"fence", "json", "x", "nl", "P"}

startsWith(text, prefix) ==
  Len(text) >= Len(prefix) /\ SubSeq(text, 1, Len(prefix)) = prefix
endsWith(text, suffix) ==
  Len(text) >= Len(suffix)
    /\ SubSeq(text, Len(text) - Len(suffix) + 1, Len(text)) = suffix

\* String.prototype.trim.
RECURSIVE trim(_)
trim(text) ==
  IF text = <<>> THEN text
  ELSE IF Head(text) = "nl" THEN trim(Tail(text))
  ELSE IF text[Len(text)] = "nl" THEN trim(SubSeq(text, 1, Len(text) - 1))
  ELSE text

\* replace(/^prefix/, '') and the replace(/fence$/, '') that follows it.
DropPrefix(text, prefix) ==
  IF startsWith(text, prefix) THEN SubSeq(text, Len(prefix) + 1, Len(text))
  ELSE text
DropFenceAtEnd(text) ==
  IF endsWith(text, <<"fence">>) THEN SubSeq(text, 1, Len(text) - 1) ELSE text

\* parseResponse, lines 274-279, without the json case of lines 275-276.
StripFenceAnyTag(text) ==
  IF startsWith(trim(text), <<"fence">>)
    THEN DropFenceAtEnd(DropPrefix(trim(text), <<"fence">>))
    ELSE trim(text)

\* parseResponse, lines 274-279: trim, then drop a leading fence marker,
\* with the word json if it follows at once, and a fence marker at the end.
StripFence(text) ==
  IF startsWith(trim(text), <<"fence", "json">>)
    THEN DropFenceAtEnd(DropPrefix(trim(text), <<"fence", "json">>))
  ELSE IF startsWith(trim(text), <<"fence">>)
    THEN DropFenceAtEnd(DropPrefix(trim(text), <<"fence">>))
  ELSE trim(text)

\* JSON.parse (line 282) on the pieces: white space around the value is
\* skipped, and the only JSON text the pieces can spell is "P" by itself.
JSONParse(text) == IF trim(text) = <<"P">> THEN "records" ELSE "not json"

\* parseResponse (lines 271-294) on a text, answering `chunk`.
parseResponseText(jsonStr, chunk) ==
  IF jsonStr = <<>> THEN Value(<<>>)
  ELSE parseResponse(JSONParse(StripFence(jsonStr)), chunk)

\* ------------------------------------------------------ tag normalization
\* The JSON values found in a record's `tags` array: strings, a number and
\* null, each with what String(t) makes of it.
JString(s) == [type |-> "string", text |-> s]
JNumber7 == [type |-> "number", text |-> "7"]
JNull == [type |-> "null", text |-> "null"]
TagValues ==
  {JString("AI"), JString("ai"), JString("Web"), JString("7"), JNumber7, JNull}

\* String.prototype.toLowerCase on the strings above.
toLowerCase(s) ==
  CASE s = "AI" -> "ai"
    [] s = "Web" -> "web"
    [] OTHER -> s

\* A record's `tags` field: an array of JSON values, or something that is
\* not an array (the field missing, a string, a number, null, an object).
JArray(elems) == [isArray |-> TRUE, elems |-> elems]
NotArray(what) == [isArray |-> FALSE, elems |-> <<>>, what |-> what]
NonArrayTags ==
  {NotArray(w) : w \in {"undefined", "string", "number", "null", "object"}}

\* `[...new Set(xs)]`: the first occurrence of every value, in order.
RECURSIVE Unique(_, _)
Unique(xs, acc) ==
  IF xs = <<>> THEN acc
  ELSE Unique(Tail(xs),
              IF \E k \in 1..Len(acc) : acc[k] = Head(xs) THEN acc
              ELSE Append(acc, Head(xs)))

\* parseResponse, line 288, were the duplicates removed before the tags are
\* stringified and lowercased.
NormalizeTagsUniqueFirst(itemTags) ==
  IF itemTags.isArray
    THEN LET u == Unique(itemTags.elems, <<>>)
         IN  [k \in 1..Len(u) |-> toLowerCase(u[k].text)]
    ELSE <<>>

\* parseResponse, line 288: `Array.isArray(item.tags) ? [...new
\* Set(item.tags.map(t => String(t).toLowerCase()))] : []`.
NormalizeTags(itemTags) ==
  IF itemTags.isArray
    THEN Unique([k \in 1..Len(itemTags.elems) |->
                   toLowerCase(itemTags.elems[k].text)], <<>>)
    ELSE <<>>

\* ----------------------------------------------------- the settings store
\* DEFAULT_AI_SETTINGS (types.ts, lines 101-112), the fields modelled.
DEFAULT_AI_SETTINGS ==
  [provider |-> "openrouter", openRouterApiKey |-> "", geminiApiKey |-> "",
   ollamaBaseUrl |-> "http://localhost:11434", ollamaModel |-> "llama3",
   batchSize |-> 1, delayBetweenBatches |-> 5000]

OllamaModels == {"", "llama3", "mistral"}

\* The AISettings objects a caller hands to saveAISettings.
SavedSettingsSpace ==
  [provider : Providers, openRouterApiKey : Keys, geminiApiKey : Keys,
   ollamaBaseUrl : BaseUrls \cup {""}, ollamaModel : OllamaModels,
   batchSize : 0..MaxBatchSize, delayBetweenBatches : DelayChoices]

\* localStorage.getItem returning null, and getAISettings not called yet.
NoData == [item |-> "null"]
NotRead == [call |-> "none"]

\* No function called by itself.
NoCall == [fn |-> "none"]

\* The App component before it is mounted.
NotMounted == [isAnalyzing |-> FALSE]

\* `if (!x) x = d` on strings.
OrDefault(x, d) == IF x = "" THEN d ELSE x

\* getAISettings, lines 153-163: the keys injected after loading.
InjectKeys(s, envApiKey) ==
  [s EXCEPT !.openRouterApiKey = OrDefault(@, DEFAULT_AI_SETTINGS.openRouterApiKey),
            !.geminiApiKey = OrDefault(@, envApiKey)]

\* getAISettings, lines 136-141 ("Ensure numeric values exist"): falsy
\* batchSize, ollamaBaseUrl and ollamaModel are replaced by the defaults; a
\* saved object has every field, so the `=== undefined` tests do nothing.
EnsureValues(s) ==
  [s EXCEPT !.batchSize = OrElse(@, DEFAULT_AI_SETTINGS.batchSize),
            !.ollamaBaseUrl = OrDefault(@, DEFAULT_AI_SETTINGS.ollamaBaseUrl),
            !.ollamaModel = OrDefault(@, DEFAULT_AI_SETTINGS.ollamaModel)]

\* getAISettings (lines 114-166) for the stored item `data` and the
\* environment's API_KEY.
getAISettings(data, envApiKey) ==
  IF data = NoData THEN InjectKeys(DEFAULT_AI_SETTINGS, envApiKey)
  ELSE InjectKeys(EnsureValues(data), envApiKey)

\* ------------------------------------------------------- the call's state
\* The state of one organizeBookmarksBatch call, as a record, so that the
\* synchronous code between two suspension points composes as functions.
Cur ==
  [pc |-> pc, batchSize |-> batchSize, delayMs |-> delayMs, chunks |-> chunks,
   i |-> i, allResults |-> allResults, retryCount |-> retryCount,
   error |-> error, waitTime |-> waitTime, inflight |-> inflight,
   attempts |-> attempts, fallbackCalls |-> fallbackCalls, logged |-> None,
   delays |-> delays, dispatched |-> dispatched, answered |-> NoAnswer,
   caught |-> None,
   chunkSettings |-> chunkSettings, timer |-> timer]

Apply(s) ==
  /\ pc' = s.pc
  /\ batchSize' = s.batchSize
  /\ delayMs' = s.delayMs
  /\ chunks' = s.chunks
  /\ i' = s.i
  /\ allResults' = s.allResults
  /\ retryCount' = s.retryCount
  /\ error' = s.error
  /\ waitTime' = s.waitTime
  /\ inflight' = s.inflight
  /\ attempts' = s.attempts
  /\ fallbackCalls' = s.fallbackCalls
  /\ logged' = s.logged
  /\ delays' = s.delays
  /\ dispatched' = s.dispatched
  /\ answered' = s.answered
  /\ caught' = s.caught
  /\ chunkSettings' = s.chunkSettings
  /\ timer' = s.timer

\* `return allResults` (line 171).
Returned(s) ==
  [s EXCEPT !.pc = "returned", !.retryCount = 0, !.error = None, !.waitTime = 0]

\* An error leaving the async function: the returned promise rejects.
Thrown(s) ==
  [s EXCEPT !.pc = "thrown", !.retryCount = 0, !.error = None, !.waitTime = 0]

\* A network request: which call made it, for which chunk, with the abort
\* signal or without, and (Local adapter) against which base URL.
Request(kind, s, withSignal) ==
  [kind |-> kind, chunk |-> s.i, signal |-> withSignal,
   baseUrl |-> settings.ollamaBaseUrl]

\* `await` on a request: the call is suspended until the request settles.
AwaitRequest(s, where, r) ==
  [s EXCEPT !.pc = where, !.inflight = @ \cup {r}, !.waitTime = 0]

RECURSIVE LoopIteration(_)
RECURSIVE processChunkWithRetry(_)
RECURSIVE processChunk(_)
RECURSIVE RetryCatch(_, _)
RECURSIVE RetryLogic(_, _)
RECURSIVE OrganizeCatch(_, _)

\* organizeBookmarksBatch, lines 150-168: how the catch block completes, were
\* it to rethrow what is not a critical API error.
CatchCompletionRethrows(e) ==
  IF CatchSeesAbort(e) \/ CriticalApiError(e.message) THEN "break" ELSE "throw"

\* organizeBookmarksBatch, lines 150-168: how the catch block completes.
CatchCompletion(e) ==
  IF CatchSeesAbort(e) THEN "break"
  ELSE IF CriticalApiError(e.message) THEN "break"
  ELSE "continue"

\* organizeBookmarksBatch, lines 150-168: the catch block around one chunk.
OrganizeCatch(s, e) ==
  LET s1 == IF CatchSeesAbort(e) THEN s
            ELSE [s EXCEPT !.logged = [chunk |-> s.i, error |-> e,
                                       retryCount |-> s.retryCount,
                                       results |-> s.allResults]]
      how == CatchCompletion(e)
  IN  CASE how = "break" -> Returned(s1)
        [] how = "continue" -> LoopIteration([s1 EXCEPT !.i = s.i + 1])
        [] OTHER -> Thrown(s1)

\* processChunkWithRetry, lines 217-234, were a rate-limit error not retried.
RetryLogicGivesUpOnRateLimit(s, e) ==
  IF CanRetry(s.retryCount) /\ ~isRateLimit(e.message)
    THEN IF aborted
           THEN processChunkWithRetry([s EXCEPT !.retryCount = @ + 1])
           ELSE [s EXCEPT !.pc = "backoff", !.error = e, !.timer = "armed",
                          !.waitTime = BackoffMs(s.retryCount, e.message)]
    ELSE OrganizeCatch(s, e)

\* processChunkWithRetry, lines 217-234: wait and retry, or rethrow.
RetryLogic(s, e) ==
  IF CanRetry(s.retryCount)
    THEN IF aborted
           \* delay() resolves at once for an aborted signal (lines 99-101)
           THEN processChunkWithRetry([s EXCEPT !.retryCount = @ + 1])
           ELSE [s EXCEPT !.pc = "backoff", !.error = e, !.timer = "armed",
                          !.waitTime = BackoffMs(s.retryCount, e.message)]
    ELSE OrganizeCatch(s, e)

\* processChunkWithRetry, lines 212-215, were a failed fallback handled like
\* a failed attempt (the fallback tried again).
AfterFallbackFailureTriesAgain(s, e) == RetryCatch(s, e)

\* processChunkWithRetry, lines 212-215, were a failed fallback not caught:
\* the chunk's handling ends with the error.
AfterFallbackFailureGivesUp(s, e) == OrganizeCatch(s, e)

\* processChunkWithRetry, lines 212-215: a failed fallback is logged and the
\* retry logic follows.
AfterFallbackFailure(s, e) == RetryLogic(s, e)

\* processChunkWithRetry, lines 184-215, were the fallback of lines 206-215
\* tried before the auth test of lines 190-201.
RetryCatchFallbackFirst(s, e) ==
  IF RetryCatchSeesAbort(e) THEN OrganizeCatch(s, AbortedByUser)
  ELSE IF /\ settings.provider = "openrouter"
          /\ isProviderError(e.message) \/ isRateLimit(e.message)
          /\ settings.geminiApiKey # ""
    THEN [AwaitRequest(s, "fallback", Request("fallback", s, FALSE))
            EXCEPT !.error = e, !.fallbackCalls = @ + 1]
  ELSE IF isAuthError(e.message) THEN OrganizeCatch(s, e)
  ELSE RetryLogic(s, e)

\* processChunkWithRetry, lines 184-215: the catch block up to the fallback.
RetryCatch(s, e) ==
  IF RetryCatchSeesAbort(e) THEN OrganizeCatch(s, AbortedByUser)
  ELSE IF isAuthError(e.message) THEN OrganizeCatch(s, e)
  ELSE IF /\ settings.provider = "openrouter"
          /\ isProviderError(e.message) \/ isRateLimit(e.message)
          /\ settings.geminiApiKey # ""
    THEN [AwaitRequest(s, "fallback", Request("fallback", s, FALSE))
            EXCEPT !.error = e, !.fallbackCalls = @ + 1]
  ELSE RetryLogic(s, e)

\* processChunk, lines 296-438, were its settings those read when the chunk
\* was first dispatched instead of `getAISettings()` at line 300.
processChunkWithChunkSettings(s) ==
  CASE s.chunkSettings.provider = "gemini" ->
         IF s.chunkSettings.geminiApiKey = "" THEN RetryCatch(s, MissingKey)
         ELSE IF aborted THEN RetryCatch(s, AbortedByUser)
         ELSE AwaitRequest(s, "request", Request("gemini", s, FALSE))
    [] s.chunkSettings.provider = "ollama" ->
         IF aborted THEN RetryCatch(s, AbortError)
         ELSE AwaitRequest(s, "request", Request("ollama", s, TRUE))
    [] OTHER ->
         IF s.chunkSettings.openRouterApiKey = "" THEN RetryCatch(s, MissingKey)
         ELSE IF aborted THEN RetryCatch(s, AbortError)
         ELSE AwaitRequest(s, "request", Request("openrouter", s, TRUE))

\* processChunk, lines 296-438, up to the provider's request.
processChunk(s) ==
  CASE settings.provider = "gemini" ->
         IF settings.geminiApiKey = "" THEN RetryCatch(s, MissingKey)
         ELSE IF aborted THEN RetryCatch(s, AbortedByUser)
         ELSE AwaitRequest(s, "request", Request("gemini", s, FALSE))
    [] settings.provider = "ollama" ->
         \* fetch() with an aborted signal rejects without a request
         IF aborted THEN RetryCatch(s, AbortError)
         ELSE AwaitRequest(s, "request", Request("ollama", s, TRUE))
    [] OTHER ->
         IF settings.openRouterApiKey = "" THEN RetryCatch(s, MissingKey)
         ELSE IF aborted THEN RetryCatch(s, AbortError)
         ELSE AwaitRequest(s, "request", Request("openrouter", s, TRUE))

\* processChunkWithRetry, lines 175-183: entry, and the dispatch attempt.
processChunkWithRetry(s) ==
  IF aborted THEN OrganizeCatch(s, AbortedByUser)
  ELSE processChunk([s EXCEPT !.attempts = @ + 1, !.error = None])

\* organizeBookmarksBatch, lines 130-141, with the `await` of line 141
\* missing: the loop goes on while the chunk's request is in flight.
LoopIterationNoAwait(s) ==
  IF ~(s.i < Len(s.chunks)) THEN Returned(s)
  ELSE IF aborted THEN Returned(s)
  ELSE LET d == processChunkWithRetry(
                  [s EXCEPT !.retryCount = 0, !.attempts = 0, !.fallbackCalls = 0,
                            !.dispatched = @ + 1, !.chunkSettings = settings])
       IN  IF d.pc = "request" /\ d.i = s.i /\ s.i + 1 < Len(s.chunks)
             THEN LoopIteration([d EXCEPT !.i = s.i + 1])
             ELSE d

\* organizeBookmarksBatch, lines 130-141, without the abort check of lines
\* 132-135 at the head of the loop.
LoopIterationNoAbortCheck(s) ==
  IF ~(s.i < Len(s.chunks)) THEN Returned(s)
  ELSE processChunkWithRetry(
         [s EXCEPT !.retryCount = 0, !.attempts = 0, !.fallbackCalls = 0,
                   !.dispatched = @ + 1, !.chunkSettings = settings])

\* organizeBookmarksBatch, lines 130-141: the loop test, the abort check and
\* the call of the retry wrapper.
LoopIteration(s) ==
  IF ~(s.i < Len(s.chunks)) THEN Returned(s)
  ELSE IF aborted THEN Returned(s)
  ELSE processChunkWithRetry(
         [s EXCEPT !.retryCount = 0, !.attempts = 0, !.fallbackCalls = 0,
                   !.dispatched = @ + 1, !.chunkSettings = settings])

\* organizeBookmarksBatch, lines 142-149, were the delay of line 148 not
\* guarded by `i < chunks.length - 1`.
AfterChunkAlwaysDelays(s, chunkResults) ==
  LET s1 == [s EXCEPT !.allResults = @ \o chunkResults, !.error = None,
                      !.retryCount = 0]
  IN  IF aborted THEN Returned(s1)
      ELSE [s1 EXCEPT !.pc = "delay", !.waitTime = s.delayMs, !.delays = @ + 1,
                      !.timer = "armed"]

\* organizeBookmarksBatch, lines 142-149: a chunk's results arrived.
AfterChunk(s, chunkResults) ==
  LET s1 == [s EXCEPT !.allResults = @ \o chunkResults, !.error = None,
                      !.retryCount = 0]
  IN  IF s.i < Len(s.chunks) - 1
        THEN IF aborted THEN Returned(s1)
             ELSE [s1 EXCEPT !.pc = "delay", !.waitTime = s.delayMs,
                             !.delays = @ + 1, !.timer = "armed"]
        ELSE LoopIteration([s1 EXCEPT !.i = s.i + 1])

\* processChunk, line 437 (`return parseResponse(jsonStr)`), and the caller's
\* lines 141-149: the provider answered the chunk's request. An exception
\* out of the parser would leave processChunk for the catch of line 184.
AfterAnswer(s, p) ==
  LET s1 == [s EXCEPT !.answered = p]
      parsed == parseResponse(p, s.chunks[s.i + 1])
  IN  IF parsed.threw THEN RetryCatch(s1, ParseError)
      ELSE AfterChunk(s1, parsed.items)

\* callDirectGemini, line 268, inside the try of lines 210-214: the fallback
\* answered.
AfterFallbackAnswer(s, p) ==
  LET s1 == [s EXCEPT !.answered = p]
      parsed == parseResponse(p, s.chunks[s.i + 1])
  IN  IF parsed.threw THEN AfterFallbackFailure(s1, s.error)
      ELSE AfterChunk(s1, parsed.items)

\* processChunk, lines 385-397: the Local adapter's first request failed.
OllamaCatch(s, r, e) ==
  LET s1 == [s EXCEPT !.caught = e]
  IN  IF r.baseUrl \in LocalhostUrls /\ LooksLikeConnectionFailure(e)
        THEN IF aborted THEN RetryCatch(s1, AbortError)
             ELSE AwaitRequest(s1, "loopback", Request("loopback", s1, TRUE))
        ELSE RetryCatch(s1, e)

\* How a request can fail. Once its signal is aborted, fetch() rejects with an
\* AbortError; the Cloud-B adapter, aborted while it reads the body of a
\* non-2xx response, throws its own "Provider returned error" (lines 427-431).
\* For the Local adapter these are the failures of doFetch (lines 353-383):
\* fetch() rejecting because no connection was made, or the adapter's own
\* error for a response that is not 2xx.
Failures(r) ==
  IF r.signal /\ aborted
    THEN {AbortError} \cup
         (IF r.kind = "openrouter"
            THEN {Err({"provider"}), Err({"provider", "503"}),
                  Err({"provider", "429"}), Err({"provider", "401"})}
            ELSE {})
    ELSE IF r.kind \in {"ollama", "loopback"}
           THEN { Err(m) : m \in ConnectionMessages \cup OllamaStatusMessages }
           ELSE ProviderErrors

\* How reading the body of the Local adapter's 2xx response can fail (line
\* 399, `await response.json()`, after the try/catch of lines 385-397): a
\* SyntaxError that names the text that is not JSON, the connection dropping
\* while the body is read, or the AbortError of the signal.
BodyFailures(r) ==
  IF r.signal /\ aborted THEN {AbortError} ELSE ProviderErrors

\* What a request can answer: nothing once its signal is aborted.
Answers(r) == IF r.signal /\ aborted THEN {} ELSE Payloads


\* ------------------------------------------------------------------ actions
InitPipeline ==
  /\ settings \in SettingsSpace
  /\ bookmarks \in { [k \in 1..n |-> k] : n \in 0..MaxItems }
  /\ aborted = FALSE
  /\ pc = "idle"
  /\ batchSize = 0
  /\ delayMs = 0
  /\ chunks = <<>>
  /\ i = 0
  /\ allResults = <<>>
  /\ retryCount = 0
  /\ error = None
  /\ waitTime = 0
  /\ inflight = {}
  /\ attempts = 0
  /\ fallbackCalls = 0
  /\ logged = None
  /\ delays = 0
  /\ dispatched = 0
  /\ answered = NoAnswer
  /\ caught = None
  /\ chunkSettings = settings
  /\ timer = "none"
  /\ stored = NoData
  /\ retrieved = NotRead

Init ==
  /\ InitPipeline
  /\ callArg = NoCall
  /\ callResult = NoCall
  /\ app = NotMounted

\* The call organizeBookmarksBatch, without the early return of line 115.
OrganizeNoEarlyReturn ==
  /\ pc = "idle"
  /\ LET size == OrElse(settings.batchSize, 1)
         s0 == [Cur EXCEPT
                  !.batchSize = size,
                  !.delayMs = OrElse(settings.delayBetweenBatches, 5000),
                  !.chunks = Chunks(bookmarks, size),
                  !.i = 0, !.allResults = <<>>]
     IN  Apply(LoopIteration(s0))
  /\ UNCHANGED <<app, settings, bookmarks, aborted, stored, retrieved, callArg,
                 callResult>>

\* The call organizeBookmarksBatch(bookmarks, existingCategories, signal), up
\* to its first suspension (lines 110-141).
Organize ==
  /\ pc = "idle"
  /\ IF Len(bookmarks) = 0
       THEN Apply(Returned(Cur))
       ELSE LET size == OrElse(settings.batchSize, 1)
                s0 == [Cur EXCEPT
                         !.batchSize = size,
                         !.delayMs = OrElse(settings.delayBetweenBatches, 5000),
                         !.chunks = Chunks(bookmarks, size),
                         !.i = 0, !.allResults = <<>>]
            IN  Apply(LoopIteration(s0))
  /\ UNCHANGED <<app, settings, bookmarks, aborted, stored, retrieved, callArg,
                 callResult>>

\* The provider's request of the current attempt settles.
RequestSettles ==
  /\ pc = "request"
  /\ \E r \in inflight :
       LET s == [Cur EXCEPT !.inflight = @ \ {r}]
       IN  \/ \E p \in Answers(r) : Apply(AfterAnswer(s, p))
           \/ \E e \in Failures(r) :
                IF r.kind = "ollama" THEN Apply(OllamaCatch(s, r, e))
                ELSE Apply(RetryCatch(s, e))
           \/ /\ r.kind = "ollama"
              /\ \E e \in BodyFailures(r) : Apply(RetryCatch(s, e))
  /\ UNCHANGED <<app, settings, bookmarks, aborted, stored, retrieved, callArg,
                 callResult>>

\* The Local adapter's second request (127.0.0.1) settles (line 393).
LoopbackSettles ==
  /\ pc = "loopback"
  /\ \E r \in inflight :
       LET s == [Cur EXCEPT !.inflight = @ \ {r}]
       IN  \/ \E p \in Answers(r) : Apply(AfterAnswer(s, p))
           \/ \E e \in Failures(r) \cup BodyFailures(r) :
                Apply(RetryCatch(s, e))
  /\ UNCHANGED <<app, settings, bookmarks, aborted, stored, retrieved, callArg,
                 callResult>>

\* The fallback call callDirectGemini (lines 210-214) settles.
FallbackSettles ==
  /\ pc = "fallback"
  /\ \E r \in inflight :
       LET s == [Cur EXCEPT !.inflight = @ \ {r}]
       IN  \/ \E p \in Answers(r) : Apply(AfterFallbackAnswer(s, p))
           \/ \E e \in Failures(r) : Apply(AfterFallbackFailure(s, error))
  /\ UNCHANGED <<app, settings, bookmarks, aborted, stored, retrieved, callArg,
                 callResult>>

\* The backoff delay() of line 230 resolves (its timer, or the abort event),
\* and line 231 calls processChunkWithRetry(chunk, retryCount + 1, signal).
BackoffEnds ==
  /\ pc = "backoff"
  /\ Apply(processChunkWithRetry(
             [Cur EXCEPT !.retryCount = @ + 1, !.error = None, !.waitTime = 0,
                         !.timer = "none"]))
  /\ UNCHANGED <<app, settings, bookmarks, aborted, stored, retrieved, callArg,
                 callResult>>

\* The inter-batch delay() of line 148 resolves; the loop goes on with i++.
DelayEnds ==
  /\ pc = "delay"
  /\ Apply(LoopIteration([Cur EXCEPT !.i = @ + 1, !.waitTime = 0,
                                     !.timer = "none"]))
  /\ UNCHANGED <<app, settings, bookmarks, aborted, stored, retrieved, callArg,
                 callResult>>

\* The caller's controller.abort() (App's handleStopAnalysis).
Abort ==
  /\ ~aborted
  /\ pc \notin {"returned", "thrown"}
  /\ aborted' = TRUE
  /\ timer' = OnAbort(timer)
  /\ UNCHANGED <<app, settings, bookmarks, pc, batchSize, delayMs, chunks, i,
                 allResults, retryCount, error, waitTime, inflight, attempts,
                 fallbackCalls, logged, delays, dispatched, answered, caught,
                 chunkSettings, stored, retrieved, callArg, callResult>>

Next ==
  \/ Organize
  \/ RequestSettles
  \/ LoopbackSettles
  \/ FallbackSettles
  \/ BackoffEnds
  \/ DelayEnds
  \/ Abort

Spec == Init /\ [][Next]_vars

\* ------------------------------------------- settings saved during a run
\* saveAISettings(t) by the settings dialog while the call is suspended:
\* from then on getAISettings() returns t. The dialog changes the provider
\* here; batchSize and the delay were read once, at lines 117-119.
SettingsChange ==
  /\ pc \in {"request", "loopback", "fallback", "backoff", "delay"}
  /\ \E t \in SettingsSpace :
       /\ t # settings
       /\ t.batchSize = settings.batchSize
       /\ t.delayBetweenBatches = settings.delayBetweenBatches
       /\ t.ollamaBaseUrl = settings.ollamaBaseUrl
       /\ t.openRouterApiKey = settings.openRouterApiKey
       /\ t.geminiApiKey = settings.geminiApiKey
       /\ settings' = t
  /\ UNCHANGED <<app, bookmarks, aborted, pc, batchSize, delayMs, chunks, i,
                 allResults, retryCount, error, waitTime, inflight, attempts,
                 fallbackCalls, logged, delays, dispatched, answered, caught,
                 chunkSettings, timer, stored, retrieved, callArg,
                 callResult>>

NextLiveSettings ==
  \/ Organize
  \/ RequestSettles
  \/ LoopbackSettles
  \/ FallbackSettles
  \/ BackoffEnds
  \/ DelayEnds
  \/ SettingsChange

\* The runs start with a Cloud-B key, a localhost base URL and one delay.
InitLiveSettings ==
  /\ Init
  /\ settings.openRouterApiKey = "key"
  /\ settings.ollamaBaseUrl \in LocalhostUrls
  /\ settings.delayBetweenBatches = 2000

\* organizeBookmarksBatch while the user saves other settings.
SpecLiveSettings == InitLiveSettings /\ [][NextLiveSettings]_vars

\* ------------------------------------------- every request settles
\* The steps of the call itself: it is made, a request settles, a timer
\* fires.
Progress ==
  \/ Organize
  \/ RequestSettles
  \/ LoopbackSettles
  \/ FallbackSettles
  \/ BackoffEnds
  \/ DelayEnds

\* organizeBookmarksBatch where the call is made, every network request
\* settles and every timer fires; whether the caller aborts is left open.
SpecEventually == InitLiveSettings /\ [][Next]_vars /\ WF_vars(Progress)

\* ------------------------------------------------------ the store alone
\* saveAISettings(s) (storage.ts, lines 168-170): JSON.stringify keeps
\* every field of s, and JSON.parse gives them back.
SaveAISettings ==
  /\ \E s \in SavedSettingsSpace : stored' = s
  /\ retrieved' = NotRead
  /\ UNCHANGED <<app, settings, bookmarks, aborted, pc, batchSize, delayMs, chunks,
                 i, allResults, retryCount, error, waitTime, inflight,
                 attempts, fallbackCalls, logged, delays, dispatched,
                 answered, caught, chunkSettings, timer, callArg, callResult>>

\* A call of getAISettings().
GetAISettings ==
  /\ \E envApiKey \in Keys : retrieved' = getAISettings(stored, envApiKey)
  /\ UNCHANGED <<app, settings, bookmarks, aborted, pc, batchSize, delayMs, chunks,
                 i, allResults, retryCount, error, waitTime, inflight,
                 attempts, fallbackCalls, logged, delays, dispatched,
                 answered, caught, chunkSettings, timer, stored, callArg,
                 callResult>>

\* No organizeBookmarksBatch call is under way.
InitStorage ==
  /\ Init
  /\ bookmarks = <<>>
  /\ settings = [provider |-> "openrouter", openRouterApiKey |-> "",
                 geminiApiKey |-> "", ollamaBaseUrl |-> "http://localhost:11434",
                 batchSize |-> 1, delayBetweenBatches |-> 2000]

NextStorage ==
  \/ SaveAISettings
  \/ GetAISettings

\* The settings store used by itself: saves and reads in any order.
SpecStorage == InitStorage /\ [][NextStorage]_vars

\* ------------------------------------------- tag normalization by itself
\* No organizeBookmarksBatch call is under way and nothing is stored.
Idle ==
  /\ InitPipeline
  /\ bookmarks = <<>>
  /\ settings = [provider |-> "openrouter", openRouterApiKey |-> "",
                 geminiApiKey |-> "", ollamaBaseUrl |-> "http://localhost:11434",
                 batchSize |-> 1, delayBetweenBatches |-> 2000]

\* The `tags` fields the parser meets: arrays of up to MaxTags values, and
\* the non-arrays.
RECURSIVE SeqsUpTo(_, _)
SeqsUpTo(S, n) ==
  IF n = 0 THEN {<<>>}
  ELSE SeqsUpTo(S, n - 1) \cup
       {Append(q, x) : q \in SeqsUpTo(S, n - 1), x \in S}
TagsFields == {JArray(q) : q \in SeqsUpTo(TagValues, MaxTags)} \cup NonArrayTags

InitTags ==
  /\ Idle
  /\ callArg \in TagsFields
  /\ callResult = NoCall
  /\ app = NotMounted

\* The `.map` callback of parseResponse (lines 286-289) on one record.
NormalizeCall ==
  /\ callResult = NoCall
  /\ callResult' = [fn |-> "tags", value |-> NormalizeTags(callArg)]
  /\ UNCHANGED <<app, settings, bookmarks, aborted, pc, batchSize, delayMs, chunks,
                 i, allResults, retryCount, error, waitTime, inflight,
                 attempts, fallbackCalls, logged, delays, dispatched,
                 answered, caught, chunkSettings, timer, stored, retrieved, callArg>>

\* The normalized tags given to the normalization again.
RenormalizeCall ==
  /\ callResult # NoCall
  /\ callArg' = JArray([k \in 1..Len(callResult.value) |->
                          JString(callResult.value[k])])
  /\ callResult' = [fn |-> "tags", value |-> NormalizeTags(callArg')]
  /\ UNCHANGED <<app, settings, bookmarks, aborted, pc, batchSize, delayMs, chunks,
                 i, allResults, retryCount, error, waitTime, inflight,
                 attempts, fallbackCalls, logged, delays, dispatched,
                 answered, caught, chunkSettings, timer, stored, retrieved>>

NextTags ==
  \/ NormalizeCall
  \/ RenormalizeCall

SpecTags == InitTags /\ [][NextTags]_vars

\* ----------------------------------------------- parseResponse by itself
\* The chunk the texts answer.
AnsweredChunk == <<1, 2>>

InitTexts ==
  /\ Idle
  /\ callArg \in SeqsUpTo(TextPieces, MaxTextLen)
  /\ callResult = NoCall
  /\ app = NotMounted

\* A call parseResponse(jsonStr).
ParseCall ==
  /\ callResult = NoCall
  /\ callResult' = [fn |-> "parseResponse",
                    value |-> parseResponseText(callArg, AnsweredChunk).items]
  /\ UNCHANGED <<app, settings, bookmarks, aborted, pc, batchSize, delayMs, chunks,
                 i, allResults, retryCount, error, waitTime, inflight,
                 attempts, fallbackCalls, logged, delays, dispatched,
                 answered, caught, chunkSettings, timer, stored, retrieved, callArg>>

NextTexts == ParseCall

SpecTexts == InitTexts /\ [][NextTexts]_vars

\* -------------------------------------- a provider that always succeeds
\* The active provider's adapter finds the credential it needs (lines 309
\* and 406; the Local adapter needs none).
Credentialed(st) ==
  CASE st.provider = "gemini" -> st.geminiApiKey # ""
    [] st.provider = "openrouter" -> st.openRouterApiKey # ""
    [] OTHER -> TRUE

InitAlwaysSucceeds == Init /\ Credentialed(settings)

\* The provider's request settles with one record per item of the chunk.
RequestAnswersRecords ==
  /\ pc = "request"
  /\ \E r \in inflight : \E p \in RecordPayloads :
       Apply(AfterAnswer([Cur EXCEPT !.inflight = @ \ {r}], p))
  /\ UNCHANGED <<app, settings, bookmarks, aborted, stored, retrieved, callArg,
                 callResult>>

NextAlwaysSucceeds ==
  \/ Organize
  \/ RequestAnswersRecords
  \/ DelayEnds

\* organizeBookmarksBatch against a provider that answers every request with
\* the chunk's records, and a caller that never aborts.
SpecAlwaysSucceeds == InitAlwaysSucceeds /\ [][NextAlwaysSucceeds]_vars

\* ------------------------------------------ a provider that rate-limits
\* The provider's request settles: answered with the chunk's records, or
\* failed with a rate-limit error.
RequestSettlesRateLimited ==
  /\ pc = "request"
  /\ \E r \in inflight :
       LET s == [Cur EXCEPT !.inflight = @ \ {r}]
       IN  \/ \E p \in RecordPayloads : Apply(AfterAnswer(s, p))
           \/ \E m \in RateLimitMessages : Apply(RetryCatch(s, Err(m)))
           \/ /\ r.kind = "ollama"
              /\ Apply(OllamaCatch(s, r, Err({"Ollama API Error", "429"})))
  /\ UNCHANGED <<app, settings, bookmarks, aborted, stored, retrieved, callArg,
                 callResult>>

NextRateLimited ==
  \/ Organize
  \/ RequestSettlesRateLimited
  \/ FallbackSettles
  \/ BackoffEnds
  \/ DelayEnds

\* organizeBookmarksBatch against a provider whose only failures are
\* rate-limit errors, and a caller that never aborts.
SpecRateLimited == InitAlwaysSucceeds /\ [][NextRateLimited]_vars


\* ---------------------------------------------------------- the App component
\* (src/unnamed/part_004). A bookmark is its id, its category and its title;
\* the other fields (url, tags, status, order, preview) take no part in the
\* merge of lines 628-637.
MaxBookmarks == 2
Categories == {"Uncategorized", "Dev"}
Titles == {"a", "b"}
AICategory == "AI"

\* The categories handleAICategorization sends to the AI (lines 600-602);
\* the third one, the Russian for "no category", is written in Latin letters.
NeedsOrganization(b) == b.category \in {"Uncategorized", "Other", "Bez kategorii"}

ids(coll) == { coll[k].id : k \in 1..Len(coll) }
findIndex(coll, id) ==
  IF id \in ids(coll)
    THEN CHOOSE k \in 1..Len(coll) :
           /\ coll[k].id = id
           /\ \A j \in 1..(k - 1) : coll[j].id # id
    ELSE 0

\* Array.prototype.filter, the callback given as the set of the elements it
\* accepts.
RECURSIVE filter(_, _)
filter(coll, accepted) ==
  IF coll = <<>> THEN <<>>
  ELSE IF Head(coll) \in accepted
         THEN <<Head(coll)>> \o filter(Tail(coll), accepted)
  ELSE filter(Tail(coll), accepted)
elements(coll) == { coll[k] : k \in 1..Len(coll) }

\* storage.ts, lines 89-94.
addBookmarkToStorage(storage, bookmark) == Append(storage, bookmark)

\* storage.ts, lines 96-104.
updateBookmarkInStorage(storage, updated) ==
  LET index == findIndex(storage, updated.id)
  IN  IF index # 0 THEN [storage EXCEPT ![index] = updated] ELSE storage

\* storage.ts, lines 106-110.
deleteBookmarkFromStorage(storage, id) ==
  filter(storage, { b \in elements(storage) : b.id # id })

\* arrayMove of @dnd-kit/sortable: the item at `from` is taken out and put
\* back at `to`.
arrayMove(items, from, to) ==
  LET item == items[from]
      rest == SubSeq(items, 1, from - 1) \o SubSeq(items, from + 1, Len(items))
  IN  SubSeq(rest, 1, to - 1) \o <<item>> \o SubSeq(rest, to, Len(rest))

\* handleAICategorization, lines 628-634: `bookmarks.map(...)`, each bookmark
\* taking the category of the first result with its id.
MergeResults(coll, results) ==
  [k \in 1..Len(coll) |->
     IF \E r \in 1..Len(results) : results[r].id = coll[k].id
       THEN [coll[k] EXCEPT
               !.category =
                 results[CHOOSE r \in 1..Len(results) :
                           /\ results[r].id = coll[k].id
                           /\ \A q \in 1..(r - 1) : results[q].id # coll[k].id
                        ].category]
       ELSE coll[k]]

\* What organizeBookmarksBatch can return for a payload: the records of the
\* chunks that were answered, in the payload's order (a failed or cancelled
\* chunk gives none), each with the id of its item.
RECURSIVE SubSeqs(_)
SubSeqs(payload) ==
  IF payload = <<>> THEN { <<>> }
  ELSE LET rest == SubSeqs(Tail(payload))
       IN  rest \cup { <<Head(payload)>> \o r : r \in rest }
OrganizeResults(payload) ==
  { [k \in 1..Len(p) |-> [id |-> p[k], category |-> AICategory]] :
      p \in SubSeqs(payload) }

\* The collections getBookmarks() can give the component when it mounts
\* (line 450).
RECURSIVE Collections(_)
Collections(n) ==
  IF n = 0 THEN { <<>> }
  ELSE { Append(c, [id |-> n, category |-> cat, title |-> "a"]) :
           c \in Collections(n - 1), cat \in Categories }

\* setBookmarks and saveBookmarks, with what becomes of the AI organization
\* run; `created` is the number of bookmarks the step created (their ids are
\* made of Date.now(), which only grows).
SetApp(bookmarksState, storage, run, created) ==
  app' = [app EXCEPT !.bookmarks = bookmarksState, !.storage = storage,
                     !.isAnalyzing = run.isAnalyzing, !.closure = run.closure,
                     !.payload = run.payload, !.results = run.results,
                     !.nextId = @ + created]
Run == [isAnalyzing |-> app.isAnalyzing, closure |-> app.closure,
        payload |-> app.payload, results |-> <<>>]
PipelineUnchanged ==
  UNCHANGED <<settings, bookmarks, aborted, pc, batchSize, delayMs, chunks, i,
              allResults, retryCount, error, waitTime, inflight, attempts,
              fallbackCalls, logged, delays, dispatched, answered, caught,
              chunkSettings, timer, stored, retrieved, callArg, callResult>>

InitApp ==
  /\ Idle
  /\ callArg = NoCall
  /\ callResult = NoCall
  /\ \E n \in 0..(MaxBookmarks - 1) : \E c \in Collections(n) :
       app = [bookmarks |-> c, storage |-> c, isAnalyzing |-> FALSE,
              closure |-> <<>>, payload |-> <<>>, results |-> <<>>,
              nextId |-> n + 1]

\* handleAddBookmark (lines 505-526), after its 600 ms timer.
handleAddBookmark ==
  /\ app.nextId <= MaxBookmarks
  /\ \E category \in Categories :
       LET newBookmark == [id |-> app.nextId, category |-> category, title |-> "a"]
           updated == addBookmarkToStorage(app.storage, newBookmark)
       IN  SetApp(updated, updated, Run, 1)
  /\ PipelineUnchanged

\* handleUpdateBookmark (lines 528-548).
handleUpdateBookmark ==
  /\ \E id \in ids(app.bookmarks) : \E title \in Titles : \E category \in Categories :
       LET original == app.bookmarks[findIndex(app.bookmarks, id)]
           updatedBookmark == [original EXCEPT !.title = title, !.category = category]
           updatedList == updateBookmarkInStorage(app.storage, updatedBookmark)
       IN  SetApp(updatedList, updatedList, Run, 0)
  /\ PipelineUnchanged

\* handleDeleteBookmark (lines 550-561), the user confirming.
handleDeleteBookmark ==
  /\ \E id \in ids(app.bookmarks) :
       LET updated == deleteBookmarkFromStorage(app.storage, id)
       IN  SetApp(updated, updated, Run, 0)
  /\ PipelineUnchanged

\* handleImportBookmarks (lines 563-580), with one imported item.
handleImportBookmarks ==
  /\ app.nextId <= MaxBookmarks
  /\ LET newBookmarks == << [id |-> app.nextId, category |-> "Uncategorized",
                            title |-> "a"] >>
         updated == app.bookmarks \o newBookmarks
     IN  SetApp(updated, updated, Run, 1)
  /\ PipelineUnchanged

\* handleDragEnd (lines 582-594).
handleDragEnd ==
  /\ \E active \in ids(app.bookmarks) : \E over \in ids(app.bookmarks) :
       /\ active # over
       /\ LET oldIndex == findIndex(app.bookmarks, active)
              newIndex == findIndex(app.bookmarks, over)
              newOrder == arrayMove(app.bookmarks, oldIndex, newIndex)
          IN  SetApp(newOrder, newOrder, Run, 0)
  /\ PipelineUnchanged

\* handleAICategorization, lines 596-625: up to the await of
\* organizeBookmarksBatch. The handler keeps the `bookmarks` of the render it
\* was created in.
handleAICategorization ==
  /\ ~app.isAnalyzing
  /\ LET targets == filter(app.bookmarks,
                            { b \in elements(app.bookmarks) : NeedsOrganization(b) })
     IN  /\ Len(targets) # 0
         /\ SetApp(app.bookmarks, app.storage,
                   [isAnalyzing |-> TRUE, closure |-> app.bookmarks,
                    payload |-> [k \in 1..Len(targets) |-> targets[k].id],
                    results |-> <<>>], 0)
  /\ PipelineUnchanged

\* handleAICategorization, lines 625-649: organizeBookmarksBatch settles and
\* the results are merged into the bookmarks the handler kept.
AnalysisSettles ==
  /\ app.isAnalyzing
  /\ \E results \in OrganizeResults(app.payload) :
       LET done == [isAnalyzing |-> FALSE, closure |-> <<>>, payload |-> <<>>,
                    results |-> results]
           newBookmarks == MergeResults(app.closure, results)
       IN  IF Len(results) > 0
             THEN SetApp(newBookmarks, newBookmarks, done, 0)
             ELSE SetApp(app.bookmarks, app.storage, done, 0)
  /\ PipelineUnchanged

NextApp ==
  \/ handleAddBookmark
  \/ handleUpdateBookmark
  \/ handleDeleteBookmark
  \/ handleImportBookmarks
  \/ handleDragEnd
  \/ handleAICategorization
  \/ AnalysisSettles

\* The user at work in the App while an AI organization may be running.
SpecApp == InitApp /\ [][NextApp]_vars

\* ------------------------------------------------------------------- claims
\* The marker families, written out as the claims name them.
TerminalFamily ==
  {"401", "unauthorized", "403", "forbidden", "invalid api key", "invalid_api_key"}
RateLimitFamily == {"429", "quota", "resource_exhausted"}
Mentions(message, family) == message \cap family # {}

\* A chunk's failure reached the orchestrator in the last step, thrown by the
\* controller with its retries used up, and is not of the terminal family.
ExhaustedNonTerminal ==
  /\ logged # None
  /\ ~Mentions(logged.error.message, TerminalFamily)
  /\ logged.retryCount = 5

\* C1: when a chunk fails with a non-terminal error after the
\* retries are exhausted, organize dispatches no further chunk and returns
\* the results of the chunks before it, whatever the error class.
C1_StopsAfterExhaustedRetries ==
  ExhaustedNonTerminal => (pc = "returned" /\ allResults = logged.results)

\* C2 (as stated): a failure of the controller's terminal family ends the
\* loop: no further chunk is dispatched and the prior results are returned.
C2_TerminalErrorStops ==
  (logged # None /\ Mentions(logged.error.message, TerminalFamily)) =>
    (pc = "returned" /\ allResults = logged.results)

\* C3 (as stated): a missing credential fails the chunk on its first attempt
\* with no backoff wait and no retry, and organize stops.
C3_MissingCredentialStops ==
  /\ ~(pc = "backoff" /\ error = MissingKey)
  /\ (logged # None /\ logged.error = MissingKey) =>
       (logged.retryCount = 0 /\ pc = "returned")

\* C4: once the signal is aborted, no step of the call starts a network
\* request (primary, loopback or fallback), and the call's next step returns.
C4_NoRequestAfterAbort ==
  [][aborted => (inflight' \subseteq inflight /\ pc' = "returned")]_vars

\* The call returned after an abort that found a chunk dispatched and chunks
\* still to do.
C4_Witness ==
  /\ aborted
  /\ pc = "returned"
  /\ attempts >= 1
  /\ i < Len(chunks) - 1

\* C5: the call never ends in an error state.
C5_NeverThrows == pc # "thrown"

\* The call returned a partial result after a chunk's failure was reported.
C5_Witness ==
  /\ pc = "returned"
  /\ logged # None
  /\ Len(allResults) < Len(bookmarks)
  /\ Len(allResults) > 0

\* C6 (as stated): an authentication-class failure of the first call gives
\* exactly one dispatch attempt, no fallback call, and an empty result.
C6_AuthFailureOnFirstCall ==
  (/\ logged # None
   /\ logged.chunk = 0
   /\ logged.retryCount = 0
   /\ Mentions(logged.error.message, TerminalFamily)) =>
    (pc = "returned" /\ allResults = <<>> /\ attempts = 1 /\ fallbackCalls = 0)

\* C7 (as stated): the dispatch attempts made for a chunk never exceed 5.
C7_AtMostFiveAttempts == attempts <= 5

\* C7 (amended): the retries of a chunk never exceed 5, so its dispatch
\* attempts (the initial one plus the retries) never exceed 6.
C7_AtMostSixAttempts == retryCount <= 5 /\ attempts <= 6

\* The sixth attempt of a chunk is in flight.
C7_Witness == attempts = 6 /\ pc = "request" /\ retryCount = 5

\* C8 (as stated): at most one fallback call is made for a chunk.
C8_OneFallbackPerChunk == fallbackCalls <= 1

\* C8 (amended): at most one fallback call follows each failed attempt of a
\* chunk, so at most 6 are made for it.
C8_OneFallbackPerAttempt == fallbackCalls <= attempts /\ fallbackCalls <= 6

\* The sixth fallback call of a chunk is in flight.
C8_Witness == fallbackCalls = 6 /\ pc = "fallback"

\* C9: at most one request is in flight, it belongs to the chunk being
\* handled, and the call is then suspended in it.
C9_Sequential ==
  /\ Cardinality(inflight) <= 1
  /\ \A r \in inflight : r.chunk = i
  /\ (inflight # {}) <=> (pc \in {"request", "loopback", "fallback"})

\* A later chunk's fallback call is the one request in flight.
C9_Witness ==
  /\ pc = "fallback"
  /\ i >= 1
  /\ Cardinality(inflight) = 1

RECURSIVE Flatten(_)
Flatten(ss) == IF ss = <<>> THEN <<>> ELSE Head(ss) \o Flatten(Tail(ss))

\* C10: for a non-empty list and batchSize >= 1 the chunks are contiguous, in
\* order, each of 1..batchSize items, their concatenation is the list, and
\* there are ceil(n / batchSize) of them.
C10_ChunksPartition ==
  (pc # "idle" /\ Len(bookmarks) > 0) =>
    /\ batchSize >= 1
    /\ Flatten(chunks) = bookmarks
    /\ \A k \in 1..Len(chunks) : Len(chunks[k]) \in 1..batchSize
    /\ Len(chunks) = (Len(bookmarks) + batchSize - 1) \div batchSize

\* The list was cut into a full chunk and a shorter last one.
C10_Witness ==
  /\ pc # "idle"
  /\ Len(chunks) = 2
  /\ Len(chunks[1]) = batchSize
  /\ Len(chunks[2]) < batchSize


CeilDiv(n, d) == (n + d - 1) \div d

\* C11: against a provider that always answers with one record per item and
\* without cancellation, the call returns one result per input item, ids in
\* input order, after exactly ceil(n / batchSize) - 1 inter-batch delays;
\* it never waits after the final chunk.
C11_OneResultPerItem ==
  /\ pc = "delay" => i < Len(chunks) - 1
  /\ (pc = "returned" /\ Len(bookmarks) > 0) =>
       /\ allResults = bookmarks
       /\ delays = CeilDiv(Len(bookmarks), settings.batchSize) - 1

\* A call over several chunks returned everything after waiting between them.
C11_Witness ==
  /\ pc = "returned"
  /\ Len(chunks) >= 2
  /\ delays = Len(chunks) - 1
  /\ allResults = bookmarks


\* C12 (as stated): the inter-batch wait after a successful non-final chunk
\* lasts exactly the configured delayBetweenBatches, for every value >= 0,
\* 0 included; no other duration is substituted.
C12_DelayIsConfigured ==
  pc = "delay" => waitTime = settings.delayBetweenBatches


\* C13 (as stated): whichever adapter or fallback call made it, a request
\* that is in flight when the caller aborts is aborted with it: it is never
\* answered, and the call ends as aborted.
C13_InFlightRequestAborted ==
  [][(aborted /\ inflight # {}) => (answered' = NoAnswer /\ pc' = "returned")]_vars


\* The requests started in the step.
Started == inflight' \ inflight

\* C14 (as stated): the provider of every attempt for a chunk, and whether
\* the fallback is called for it, follow the settings in effect when the
\* chunk was first dispatched, whatever is saved while it is in flight.
C14_ChunkStartSettingsGovern ==
  [][\A r \in Started :
       /\ r.kind \in Providers => r.kind = chunkSettings'.provider
       /\ r.kind = "fallback" =>
            /\ chunkSettings'.provider = "openrouter"
            /\ chunkSettings'.geminiApiKey # ""]_vars

\* C14 (amended): every attempt goes to the provider configured when that
\* attempt starts, the fallback is called when the settings at the moment
\* of the failure ask for it, and saving settings leaves the request in
\* flight as it is.
C14_AttemptStartSettingsGovern ==
  [][/\ \A r \in Started :
          /\ r.kind \in Providers =>
               (r.kind = settings.provider /\ Credentialed(settings))
          /\ r.kind = "fallback" =>
               /\ settings.provider = "openrouter"
               /\ settings.geminiApiKey # ""
          /\ r.kind = "loopback" => \E q \in inflight : q.kind = "ollama"
     /\ settings' # settings => (inflight' = inflight /\ pc' = pc)]_vars

\* A retry of a chunk is in flight at a provider other than the one the
\* chunk was first dispatched with.
C14_Witness ==
  /\ pc = "request"
  /\ retryCount >= 1
  /\ \E r \in inflight :
       r.kind = settings.provider /\ r.kind # chunkSettings.provider


\* C15: when the caller aborts during the inter-batch delay that follows
\* chunk k, the delay is resolved by the abort (its timer is cleared, it
\* does not wait for it), no later chunk is dispatched and no request is
\* made, and the call returns the results gathered from chunks 1..k.
C15_AbortEndsDelay ==
  [][(aborted /\ pc = "delay") =>
       /\ timer = "cleared"
       /\ dispatched = i + 1
       /\ pc' = "returned"
       /\ allResults' = allResults
       /\ dispatched' = dispatched
       /\ inflight' = {}]_vars

\* The call returned chunk 1's records after an abort during the delay
\* that followed chunk 1.
C15_Witness ==
  /\ aborted
  /\ pc = "returned"
  /\ timer = "none"
  /\ delays = 1
  /\ dispatched = 1
  /\ Len(chunks) >= 2
  /\ allResults = chunks[1]


\* C16: a call whose signal is already aborted returns the empty list at
\* once: no chunk is handed to the controller, no request or fallback call
\* is made and no delay is started.
C16_AbortedBeforeStart ==
  [][(aborted /\ pc = "idle") =>
       /\ pc' = "returned"
       /\ allResults' = <<>>
       /\ dispatched' = 0
       /\ attempts' = 0
       /\ fallbackCalls' = 0
       /\ delays' = 0
       /\ timer' = "none"
       /\ inflight' = {}]_vars

\* A call with bookmarks to organize returned under an abort that preceded it.
C16_Witness ==
  /\ aborted
  /\ pc = "returned"
  /\ Len(chunks) >= 1
  /\ dispatched = 0
  /\ allResults = <<>>


\* C17: called with no bookmarks, the call returns the empty list at once,
\* before it reads the settings or builds chunks, with no request, fallback
\* call or delay, whether or not the signal is already aborted.
C17_EmptyInputReturnsAtOnce ==
  [][(pc = "idle" /\ pc' # "idle" /\ Len(bookmarks) = 0) =>
       /\ pc' = "returned"
       /\ allResults' = <<>>
       /\ batchSize' = 0 /\ delayMs' = 0 /\ chunks' = <<>>
       /\ dispatched' = 0
       /\ attempts' = 0
       /\ fallbackCalls' = 0
       /\ delays' = 0
       /\ inflight' = {}]_vars

\* A call with no bookmarks and an aborted signal has returned.
C17_Witness ==
  /\ pc = "returned"
  /\ Len(bookmarks) = 0
  /\ aborted
  /\ allResults = <<>>


\* C18: against a provider whose failures are rate-limit errors, a failed
\* first or second attempt is followed by a wait and another attempt
\* (after the fallback call, where one is configured, has failed too); when
\* the third attempt is answered it is the second retry, the chunk's records
\* are appended to the results, and the call goes on with the next chunk
\* after the inter-batch delay, or returns after the last one.
C18_ThirdAttemptSucceeds ==
  [][/\ (pc \in {"request", "fallback"} /\ attempts <= 2
           /\ answered' = NoAnswer) =>
          (pc' \in {"fallback", "backoff"} /\ logged' = None
             /\ allResults' = allResults)
     /\ pc = "backoff" =>
          (pc' = "request" /\ attempts' = attempts + 1
             /\ retryCount' = retryCount + 1 /\ i' = i)
     /\ (pc = "request" /\ attempts = 3 /\ answered' \in RecordPayloads) =>
          /\ retryCount = 2
          /\ attempts' = 3
          /\ allResults' = allResults \o chunks[i + 1]
          /\ pc' = IF i < Len(chunks) - 1 THEN "delay" ELSE "returned"
     /\ pc = "delay" =>
          (pc' = "request" /\ i' = i + 1 /\ attempts' = 1
             /\ allResults' = allResults)]_vars

\* The third attempt for chunk 1 was answered; its records are in the
\* results and the call waits before the next chunk.
C18_Witness ==
  /\ pc = "delay"
  /\ i = 0
  /\ attempts = 3
  /\ answered \in RecordPayloads
  /\ allResults = chunks[1]

\* C19: a malformed answer to a chunk's request is a success with no
\* classifications: nothing is added to the results, no failure is reported
\* or retried, and the call goes on to the next chunk (it waits the
\* inter-batch delay, or returns if that was the last chunk or the caller
\* has aborted).
C19_MalformedAnswerIsEmptySuccess ==
  [][(pc \in {"request", "loopback", "fallback"}
        /\ answered' \in MalformedPayloads) =>
       /\ allResults' = allResults
       /\ logged' = None
       /\ error' = None
       /\ attempts' = attempts
       /\ inflight' = {}
       /\ pc' = IF i < Len(chunks) - 1 /\ ~aborted THEN "delay" ELSE "returned"]_vars

\* The answer to chunk 1 was not JSON, and the call waits before chunk 2
\* with no results so far.
C19_Witness ==
  /\ pc = "delay"
  /\ i = 0
  /\ answered = "not json"
  /\ attempts = 1
  /\ allResults = <<>>


\* C20 (as stated): getAISettings() called after saveAISettings(s) returns
\* the ollamaModel that was saved, the empty string included.
C20_OllamaModelRoundTrip ==
  (stored # NoData /\ retrieved # NotRead) =>
    retrieved.ollamaModel = stored.ollamaModel


\* The strings toLowerCase leaves as they are.
Lowercased == {"ai", "web", "7", "null"}

\* C21: the tags of a returned record are lowercased strings without
\* duplicates, empty when the field was missing or not an array, and
\* normalizing them again gives them back unchanged.
C21_TagsNormalized ==
  /\ [](callResult # NoCall =>
         /\ \A k \in 1..Len(callResult.value) :
              callResult.value[k] \in Lowercased
         /\ \A k, l \in 1..Len(callResult.value) :
              callResult.value[k] = callResult.value[l] => k = l
         /\ ~callArg.isArray => callResult.value = <<>>
         /\ callArg.isArray =>
              {callResult.value[k] : k \in 1..Len(callResult.value)} =
              {toLowerCase(callArg.elems[k].text) : k \in 1..Len(callArg.elems)})
  /\ [][callResult # NoCall => callResult'.value = callResult.value]_vars

\* Tags that differed only by case or by type were normalized to one tag
\* each.
C21_Witness ==
  /\ callArg = JArray(<<JString("AI"), JString("ai"), JNumber7>>)
  /\ callResult # NoCall
  /\ callResult.value = <<"ai", "7">>


\* The payload P in a fenced code block whose opening fence carries `tag`:
\* the fence and its tag, a line break, P, and the closing fence on the
\* same or on the next line.
Fenced(tag) ==
  { <<"fence">> \o tag \o <<"nl", "P">> \o trail \o <<"fence">> :
      trail \in {<<>>, <<"nl">>} }
OtherTags == {<<"x">>, <<"json", "x">>, <<"x", "json">>}

\* C22 (as stated): parsing P in a fenced code block gives what parsing P
\* gives, with no language tag, with the tag json and with any other tag.
C22_AnyFenceIsStripped ==
  (callResult # NoCall
     /\ \E tag \in {<<>>, <<"json">>} \cup OtherTags : callArg \in Fenced(tag)) =>
    callResult.value = parseResponseText(<<"P">>, AnsweredChunk).items

\* C22 (amended): parsing P in a fenced code block gives what parsing P
\* gives when the opening fence has no language tag or the tag json; with
\* any other tag the result is the empty list.
C22_PlainOrJsonFenceIsStripped ==
  callResult # NoCall =>
    /\ (\E tag \in {<<>>, <<"json">>} : callArg \in Fenced(tag)) =>
         /\ callResult.value = parseResponseText(<<"P">>, AnsweredChunk).items
         /\ callResult.value = AnsweredChunk
    /\ (\E tag \in OtherTags : callArg \in Fenced(tag)) =>
         callResult.value = <<>>

\* P in a fence tagged json, the closing fence on its own line, was parsed
\* to the chunk's records.
C22_Witness ==
  /\ callArg = <<"fence", "json", "nl", "P", "nl", "fence">>
  /\ callResult # NoCall
  /\ callResult.value = AnsweredChunk


OutageFamily == {"provider", "502", "503", "failed to fetch"}

\* C23: a fallback call starts only after a failure that found the provider
\* set to Cloud-B (openrouter), a Cloud-A key configured and no abort, with
\* an error of the outage or rate-limit family and not of the terminal one;
\* none starts while the provider is Cloud-A or Local.
C23_FallbackOnlyWhenCalledFor ==
  [][\A r \in Started :
       r.kind = "fallback" =>
         /\ pc \in {"request", "loopback"}
         /\ settings.provider = "openrouter"
         /\ settings.geminiApiKey # ""
         /\ ~aborted
         /\ Mentions(error'.message, OutageFamily \cup RateLimitFamily)
         /\ ~Mentions(error'.message, TerminalFamily)]_vars

\* A fallback call is in flight after an outage of Cloud-B.
C23_Witness ==
  /\ pc = "fallback"
  /\ \E r \in inflight : r.kind = "fallback"
  /\ settings.provider = "openrouter"
  /\ "503" \in error.message


RECURSIVE Pow2(_)
Pow2(k) == IF k = 0 THEN 1 ELSE 2 * Pow2(k - 1)

\* The wait the claims give for the retry after a failure with counter k.
ScheduledWait(k, message) ==
  IF Mentions(message, RateLimitFamily) THEN 10000 + 5000 * k
  ELSE 1000 * Pow2(k)

\* C24: when the fallback call fails, whatever its error, the controller
\* goes on with the retry logic for the primary error (the wait scheduled
\* for it and no second fallback call, or the primary error rethrown once
\* the retries are used up); when the fallback is answered, the parsed
\* records are the chunk's result and nothing more is tried for the chunk.
C24_FallbackOutcome ==
  [][(pc = "fallback" /\ inflight' # inflight) =>
       IF answered' = NoAnswer
         THEN /\ allResults' = allResults
              /\ IF retryCount < 5
                    THEN /\ logged' = None
                         /\ inflight' = {}
                         /\ aborted => pc' = "returned"
                         /\ ~aborted =>
                              /\ pc' = "backoff"
                              /\ error' = error
                              /\ waitTime' = ScheduledWait(retryCount, error.message)
                              /\ fallbackCalls' = fallbackCalls
                              /\ attempts' = attempts
                    ELSE /\ aborted => pc' = "returned"
                         /\ ~aborted =>
                              /\ logged' # None
                              /\ logged'.error = error
                              /\ logged'.chunk = i
         ELSE /\ allResults' =
                   allResults \o parseResponse(answered', chunks[i + 1]).items
              /\ logged' = None
              /\ attempts' = attempts
              /\ fallbackCalls' = fallbackCalls
              /\ inflight' = {}
              /\ pc' \in {"delay", "returned"}]_vars

\* The call waits before a retry after its fallback call failed; the wait is
\* the one scheduled for the primary error, a rate limit.
C24_Witness ==
  /\ pc = "backoff"
  /\ fallbackCalls = 1
  /\ attempts = 1
  /\ "429" \in error.message
  /\ waitTime = 10000


\* C25: the wait before the retry that follows a failure with retry counter
\* k is 1000 * 2^k ms, or 10000 + 5000 * k ms when the error is of the
\* rate-limit family (also when it is of another family too), with k in
\* 0..4; an abort during the wait resolves it with its timer cleared, and
\* the call returns without another attempt or request.
C25_BackoffSchedule ==
  /\ [](pc = "backoff" =>
         /\ retryCount \in 0..4
         /\ waitTime = ScheduledWait(retryCount, error.message)
         /\ waitTime \in {1000, 2000, 4000, 8000, 16000,
                          10000, 15000, 20000, 25000, 30000})
  /\ [][(aborted /\ pc = "backoff") =>
          /\ timer = "cleared"
          /\ pc' = "returned"
          /\ attempts' = attempts
          /\ fallbackCalls' = fallbackCalls
          /\ inflight' = {}]_vars

\* The call waits 25 s before the fourth retry after an error that is both
\* an outage and a rate limit.
C25_Witness ==
  /\ pc = "backoff"
  /\ retryCount = 3
  /\ error.message = {"provider", "429"}
  /\ waitTime = 25000


\* C26: the retry counter stays within 0..5 and a retry raises it by one;
\* when the attempt made at counter 5 fails, the failure goes to the
\* orchestrator as it is, with no wait and no attempt after it for that
\* chunk; and when every request settles and every timer fires, the call
\* returns.
C26_RetriesTerminate ==
  /\ [](retryCount \in 0..5 /\ attempts <= 6)
  /\ [][(pc = "backoff" /\ ~aborted' /\ pc' # "returned" /\ i' = i) =>
          /\ retryCount' = retryCount + 1
          /\ attempts' = attempts + 1]_vars
  /\ [][(pc \in {"request", "loopback", "fallback"} /\ retryCount = 5
            /\ ~aborted /\ inflight' # inflight /\ answered' = NoAnswer
            /\ ~(pc' \in {"loopback", "fallback"} /\ i' = i)) =>
          /\ logged' # None
          /\ logged'.retryCount = 5
          /\ logged'.chunk = i
          /\ logged'.error.name = "Error"
          /\ pc' = "backoff" => i' # i]_vars
  /\ <>(pc = "returned")

\* The sixth attempt for a chunk failed with a retryable error, which was
\* handed to the orchestrator.
C26_Witness ==
  /\ logged # None
  /\ logged.retryCount = 5
  /\ logged.error.message = {"503"}
  /\ attempts = 6


\* C27: within one dispatch the Local adapter issues at most two requests.
\* The second one, against 127.0.0.1, is started only in the step in which
\* the first one failed with a connection failure (fetch itself rejected, as
\* opposed to the adapter's own error for a response that is not 2xx) and
\* the base URL uses the hostname localhost; a non-2xx status of the first
\* request starts no second request; and when the second request settles no
\* further request to 127.0.0.1 is started in that dispatch.
StatusError(e) == "Ollama API Error" \in e.message
StartsLoopback == \E r \in Started : r.kind = "loopback"
C27_LoopbackOnlyOnConnectionFailure ==
  /\ [][StartsLoopback =>
          /\ pc = "request"
          /\ \E f \in inflight \ inflight' :
               /\ f.kind = "ollama"
               /\ f.baseUrl = "http://localhost:11434"
          /\ caught' # None
          /\ ~StatusError(caught')]_vars
  /\ [][(caught' # None /\ StatusError(caught')) => ~StartsLoopback]_vars
  /\ [][pc = "loopback" => ~StartsLoopback]_vars

\* C28: the aggregated result never grows after cancellation. Once the
\* signal is set no step of the call adds to allResults, so the list the call
\* returns is the list as it was when the signal was set, and a chunk whose
\* request (primary or fallback) was in flight then contributes nothing.
C28_NoGrowthAfterCancellation ==
  [][aborted => allResults' = allResults]_vars

\* C29: the first dispatch of every chunk after the first happens
\* when an inter-batch delay ends, whatever the outcome of the previous chunk.
FirstDispatchOfLaterChunk == dispatched' = dispatched + 1 /\ i' >= 1
C29_DelayBeforeEveryLaterChunk ==
  [][FirstDispatchOfLaterChunk => pc = "delay"]_vars

\* C30: reconciliation does not lose concurrent user changes. In the step
\* that merges the results of an AI organization run, the stored collection
\* becomes the collection as it was stored just before that step, with only
\* the category of the bookmarks whose ids are in the results replaced.
Recategorized(coll, results) ==
  [k \in 1..Len(coll) |->
     LET matches == { r \in 1..Len(results) : results[r].id = coll[k].id }
     IN  IF matches = {} THEN coll[k]
         ELSE [id |-> coll[k].id, title |-> coll[k].title,
               category |-> results[CHOOSE r \in matches :
                                      \A q \in matches : r <= q].category]]
C30_MergeKeepsConcurrentChanges ==
  [][(app.isAnalyzing /\ ~app'.isAnalyzing) =>
       app'.storage = Recategorized(app.storage, app'.results)]_vars

====
